---- MODULE Spec2Model ----
(***************************************************************************)
(* GPSSimplifier (src/utils/simplifier.py): Ramer-Douglas-Peucker          *)
(* reduction of a GPS track, with its equirectangular projection and the   *)
(* two shape adapters of simplify.                                         *)
(*                                                                         *)
(* Arithmetic.  Coordinates are integers and every distance is kept as an  *)
(* exact squared distance: the numerator of a fraction whose denominator   *)
(* is SegDen(a, b), the same for all interior points of one range.  The    *)
(* test  max_dist > epsilon  is then  epsilon < 0  or                      *)
(* numerator > epsilon^2 * denominator  (a distance is never negative).    *)
(* In simplify, latitudes and longitudes are whole degrees, np.cos is      *)
(* rounded to CosScale-ths, and planar lengths and epsilon are counted in  *)
(* units of EARTH_RADIUS_M * pi / 180 / CosScale metres.                   *)
(***************************************************************************)
EXTENDS Integers, Sequences, FiniteSets, TLC

\* ---- bounds of the explored inputs ----
\* tracks of up to MaxN points; planar points on the grid (0..MaxX) x {0, 1};
\* latitudes LatBase and LatBase + 1 degrees (the band of the mean latitude
\* changes between them), longitudes 0..MaxX degrees; epsilon in -1..MaxEps
MaxN == 4
MaxX == 1
MaxEps == 1
LatBase == 56

CosScale == 10

Epsilons == {0 - 1} \cup (0 .. MaxEps)
Grid == (0 .. MaxX) \X {0, 1}
Lats == {LatBase, LatBase + 1}
Lons == 0 .. MaxX
Columns == {"latitude", "longitude", "elevation"}

\* ---- values passed to and returned by the public operations ----
NoData == [kind |-> "none", points_xy |-> <<>>, indices |-> <<>>, columns |-> {},
           rows |-> <<>>, latitudes |-> <<>>, longitudes |-> <<>>]

PointsData(p) == [NoData EXCEPT !.kind = "points", !.points_xy = p]

ArraysData(lats, lons) ==
    [NoData EXCEPT !.kind = "arrays", !.latitudes = lats, !.longitudes = lons]

DataFrame(cols, rws) == [NoData EXCEPT !.kind = "DataFrame", !.columns = cols, !.rows = rws]

Row(cols, lat, lon, ele) ==
    [c \in cols |-> IF c = "latitude" THEN lat ELSE IF c = "longitude" THEN lon ELSE ele]

TrackFrame(cols, lats, lons) ==
    DataFrame(cols, [k \in 1 .. Len(lats) |-> Row(cols, lats[k], lons[k], k)])

IndicesResult(ix) == [NoData EXCEPT !.kind = "indices", !.indices = ix]
ErrorResult == [NoData EXCEPT !.kind = "error"]

\* ---- numpy helpers ----
\* float('nan'): the one non-finite value followed through the arithmetic;
\* every sum, product, np.mean, np.cos and np.linalg.norm of a NaN is NaN and
\* every comparison with a NaN is false
NaN == 0 - 999

HasNaN(s) == \E k \in 1 .. Len(s) : s[k] = NaN

At(s, i) == s[i + 1]

Arange_FromOne(n) == [k \in 1 .. n |-> k]

Arange(n) == [k \in 1 .. n |-> k - 1]

Nonzero_Reversed(kp, n) ==
    LET up == SelectSeq([k \in 1 .. n |-> k - 1], LAMBDA i : kp[i])
    IN  [k \in 1 .. Len(up) |-> up[Len(up) + 1 - k]]

Nonzero(kp, n) == SelectSeq([k \in 1 .. n |-> k - 1], LAMBDA i : kp[i])

Take(s, ix) == [k \in 1 .. Len(ix) |-> At(s, ix[k])]

Dot(u, v) == u[1] * v[1] + u[2] * v[2]

Sub(u, v) == <<u[1] - v[1], u[2] - v[2]>>

Clip_None(t, lo, hi) == t

Clip(t, lo, hi) == IF t < lo THEN lo ELSE IF t > hi THEN hi ELSE t

\* np.argmax: the first maximum, and the first NaN when there is one
ArgMax_First(d) == 1

ArgMax_Last(d) ==
    CHOOSE k \in 1 .. Len(d) :
        /\ \A m \in 1 .. Len(d) : d[m] <= d[k]
        /\ \A m \in (k + 1) .. Len(d) : d[m] < d[k]

ArgMax(d) ==
    IF HasNaN(d) THEN CHOOSE k \in 1 .. Len(d) : d[k] = NaN /\ \A m \in 1 .. (k - 1) : d[m] # NaN
    ELSE CHOOSE k \in 1 .. Len(d) :
            /\ \A m \in 1 .. Len(d) : d[m] <= d[k]
            /\ \A m \in 1 .. (k - 1) : d[m] < d[k]

\* ---- latlon_to_xy ----
SumSeq(s) == LET RECURSIVE S(_)
                 S(k) == IF k = 0 THEN 0 ELSE s[k] + S(k - 1)
             IN S(Len(s))

Abs(x) == IF x < 0 THEN 0 - x ELSE x

\* round(CosScale * cos(total / n degrees)): the band of the mean latitude,
\* band edges acos((2c - 1) / 20) in hundredths of a degree
CosMean(total, n) ==
    LET m == 100 * Abs(total)
    IN  IF m < 1819 * n THEN 10
        ELSE IF m < 3179 * n THEN 9
        ELSE IF m < 4141 * n THEN 8
        ELSE IF m < 4946 * n THEN 7
        ELSE IF m < 5663 * n THEN 6
        ELSE IF m < 6326 * n THEN 5
        ELSE IF m < 6951 * n THEN 4
        ELSE IF m < 7552 * n THEN 3
        ELSE IF m < 8137 * n THEN 2
        ELSE IF m < 8713 * n THEN 1
        ELSE 0

latlon_to_xy(latitudes, longitudes) ==
    IF Len(latitudes) = 0 THEN [ok |-> TRUE, xy |-> <<>>]
    ELSE IF Len(longitudes) # Len(latitudes) THEN [ok |-> FALSE, xy |-> <<>>]
    ELSE LET cos_lat0 == IF HasNaN(latitudes) THEN NaN
                         ELSE CosMean(SumSeq(latitudes), Len(latitudes))
         IN  [ok |-> TRUE,
              xy |-> [k \in 1 .. Len(latitudes) |->
                         <<IF cos_lat0 = NaN \/ longitudes[k] = NaN THEN NaN
                           ELSE longitudes[k] * cos_lat0,
                           IF latitudes[k] = NaN THEN NaN ELSE latitudes[k] * CosScale>>]]

\* ---- _point_segment_distance_numpy ----
SegDen(a, b) == LET ab == Sub(b, a) IN IF Dot(ab, ab) = 0 THEN 1 ELSE Dot(ab, ab)

point_segment_distance_numpy(p, a, b) ==
    LET ab == Sub(b, a)
        ap == Sub(p, a)
        ab_len2 == Dot(ab, ab)
    IN  IF p[1] = NaN \/ p[2] = NaN \/ a[1] = NaN \/ a[2] = NaN \/ b[1] = NaN \/ b[2] = NaN
        THEN NaN
        ELSE IF ab_len2 = 0 THEN Dot(ap, ap)
        ELSE LET t == Clip(Dot(ap, ab), 0, ab_len2)
             IN  Dot(ap, ap) * ab_len2 - 2 * t * Dot(ap, ab) + t * t

Exceeds_OffByOne(num, den, eps) == eps < 0 \/ num > (eps + 1) * (eps + 1) * den

Exceeds_Inverted(num, den, eps) == num < eps * eps * den

Exceeds_GreaterEqual(num, den, eps) == num # NaN /\ (eps < 0 \/ num >= eps * eps * den)

Exceeds(num, den, eps) == num # NaN /\ (eps < 0 \/ num > eps * eps * den)

\* ---- _rdp_indices_numpy ----
KeepInit_FirstOnly(n) == [k \in 0 .. (n - 1) |-> k = 0]

KeepInit(n) == [k \in 0 .. (n - 1) |-> k = 0 \/ k = n - 1]

Distances_ShortChord(pts, i, j) ==
    [k \in 1 .. (j - i - 1) |->
        point_segment_distance_numpy(At(pts, i + k), At(pts, i), At(pts, j - 1))]

Distances(pts, i, j) ==
    [k \in 1 .. (j - i - 1) |-> point_segment_distance_numpy(At(pts, i + k), At(pts, i), At(pts, j))]

LoopBody_RepushWhole(pts, eps, stk, kp) ==
    LET top == stk[Len(stk)]
        rest == SubSeq(stk, 1, Len(stk) - 1)
        i == top[1]
        j == top[2]
    IN  IF j - i <= 1 THEN [stack |-> rest, keep |-> kp]
        ELSE LET distances == Distances(pts, i, j)
                 max_idx_rel == ArgMax(distances)
                 max_dist == distances[max_idx_rel]
                 max_idx == i + max_idx_rel
             IN  IF Exceeds(max_dist, SegDen(At(pts, i), At(pts, j)), eps)
                 THEN [stack |-> rest \o << <<i, j>>, <<max_idx, j>> >>,
                       keep |-> [kp EXCEPT ![max_idx] = TRUE]]
                 ELSE [stack |-> rest, keep |-> kp]

LoopBody_DropLeft(pts, eps, stk, kp) ==
    LET top == stk[Len(stk)]
        rest == SubSeq(stk, 1, Len(stk) - 1)
        i == top[1]
        j == top[2]
    IN  IF j - i <= 1 THEN [stack |-> rest, keep |-> kp]
        ELSE LET distances == Distances(pts, i, j)
                 max_idx_rel == ArgMax(distances)
                 max_dist == distances[max_idx_rel]
                 max_idx == i + max_idx_rel
             IN  IF Exceeds(max_dist, SegDen(At(pts, i), At(pts, j)), eps)
                 THEN [stack |-> rest \o << <<max_idx, j>> >>,
                       keep |-> [kp EXCEPT ![max_idx] = TRUE]]
                 ELSE [stack |-> rest, keep |-> kp]

LoopBody_PushLeftTwice(pts, eps, stk, kp) ==
    LET top == stk[Len(stk)]
        rest == SubSeq(stk, 1, Len(stk) - 1)
        i == top[1]
        j == top[2]
    IN  IF j - i <= 1 THEN [stack |-> rest, keep |-> kp]
        ELSE LET distances == Distances(pts, i, j)
                 max_idx_rel == ArgMax(distances)
                 max_dist == distances[max_idx_rel]
                 max_idx == i + max_idx_rel
             IN  IF Exceeds(max_dist, SegDen(At(pts, i), At(pts, j)), eps)
                 THEN [stack |-> rest \o << <<i, max_idx>>, <<i, max_idx>>, <<max_idx, j>> >>,
                       keep |-> [kp EXCEPT ![max_idx] = TRUE]]
                 ELSE [stack |-> rest, keep |-> kp]

LoopBody_PushRightTwice(pts, eps, stk, kp) ==
    LET top == stk[Len(stk)]
        rest == SubSeq(stk, 1, Len(stk) - 1)
        i == top[1]
        j == top[2]
    IN  IF j - i <= 1 THEN [stack |-> rest, keep |-> kp]
        ELSE LET distances == Distances(pts, i, j)
                 max_idx_rel == ArgMax(distances)
                 max_dist == distances[max_idx_rel]
                 max_idx == i + max_idx_rel
             IN  IF Exceeds(max_dist, SegDen(At(pts, i), At(pts, j)), eps)
                 THEN [stack |-> rest \o << <<i, max_idx>>, <<max_idx, j>>, <<max_idx, j>> >>,
                       keep |-> [kp EXCEPT ![max_idx] = TRUE]]
                 ELSE [stack |-> rest, keep |-> kp]

LoopBody_SkipMark(pts, eps, stk, kp) ==
    LET top == stk[Len(stk)]
        rest == SubSeq(stk, 1, Len(stk) - 1)
        i == top[1]
        j == top[2]
    IN  IF j - i <= 1 THEN [stack |-> rest, keep |-> kp]
        ELSE LET distances == Distances(pts, i, j)
                 max_idx_rel == ArgMax(distances)
                 max_dist == distances[max_idx_rel]
                 max_idx == i + max_idx_rel
             IN  IF Exceeds(max_dist, SegDen(At(pts, i), At(pts, j)), eps)
                 THEN [stack |-> rest \o << <<i, max_idx>>, <<max_idx, j>> >>,
                       keep |-> kp]
                 ELSE [stack |-> rest, keep |-> kp]

LoopBody(pts, eps, stk, kp) ==
    LET top == stk[Len(stk)]
        rest == SubSeq(stk, 1, Len(stk) - 1)
        i == top[1]
        j == top[2]
    IN  IF j - i <= 1 THEN [stack |-> rest, keep |-> kp]
        ELSE LET distances == Distances(pts, i, j)
                 max_idx_rel == ArgMax(distances)
                 max_dist == distances[max_idx_rel]
                 max_idx == i + max_idx_rel
             IN  IF Exceeds(max_dist, SegDen(At(pts, i), At(pts, j)), eps)
                 THEN [stack |-> rest \o << <<i, max_idx>>, <<max_idx, j>> >>,
                       keep |-> [kp EXCEPT ![max_idx] = TRUE]]
                 ELSE [stack |-> rest, keep |-> kp]

RECURSIVE RunLoop(_, _, _, _)
RunLoop(pts, eps, stk, kp) ==
    IF stk = <<>> THEN kp
    ELSE LET s == LoopBody(pts, eps, stk, kp) IN RunLoop(pts, eps, s.stack, s.keep)

rdp_indices_numpy(pts, eps) ==
    LET n == Len(pts)
    IN  IF n <= 2 THEN Arange(n)
        ELSE Nonzero(RunLoop(pts, eps, << <<0, n - 1>> >>, KeepInit(n)), n)

rdp_indices(pts, eps) == IF Len(pts) = 0 THEN <<>> ELSE rdp_indices_numpy(pts, eps)

\* ---- state ----
\* data .. pc: one call followed step by step.  self: the fields of each
\* GPSSimplifier instance; calls: the frames of the calls of simplify that run
\* side by side, one per thread; iterations: the passes made through the body
\* of the while loop
VARIABLES data, epsilon, points_xy, stack, keep, indices, ret, pc, self, calls, iterations

vars == <<data, epsilon, points_xy, stack, keep, indices, ret, pc, self, calls, iterations>>

\* the missing optional argument, apart from every number
None == 0 - 1000

\* two instances, constructed with different tolerances
Simplifiers == [i \in 1 .. 2 |-> [epsilon_meters |-> IF i = 1 THEN 0 ELSE MaxEps * CosScale]]

\* the calls explored: rdp_indices on planar points, simplify on a table
\* (with any column set) and simplify on two arrays (of any two lengths)
Inputs(d) ==
    \E n \in 0 .. MaxN :
        \/ \E p \in [1 .. n -> Grid] : d = PointsData(p)
        \/ \E la \in [1 .. n -> Lats] :
              \/ \E m \in 0 .. MaxN : \E lo \in [1 .. m -> Lons] : d = ArraysData(la, lo)
              \/ \E lo \in [1 .. n -> Lons] :
                    \E cols \in SUBSET Columns : d = TrackFrame(cols, la, lo)

Init ==
    /\ Inputs(data)
    /\ epsilon \in Epsilons
    /\ points_xy = <<>>
    /\ stack = <<>>
    /\ keep = <<>>
    /\ indices = <<>>
    /\ ret = NoData
    /\ pc = "start"
    /\ self = Simplifiers
    /\ iterations = 0
    /\ calls = <<>>

Materialize_Swapped(d, ix) ==
    IF d.kind = "points" THEN IndicesResult(ix)
    ELSE IF d.kind = "DataFrame"
    THEN DataFrame(d.columns,
                   [k \in 1 .. Len(ix) |->
                       [c \in d.columns |->
                           IF c = "latitude" THEN At(d.rows, ix[k])["longitude"]
                           ELSE IF c = "longitude" THEN At(d.rows, ix[k])["latitude"]
                           ELSE At(d.rows, ix[k])[c]]])
    ELSE ArraysData(Take(d.longitudes, ix), Take(d.latitudes, ix))

\* the value handed back for the index array ix, in the shape of the input
Materialize(d, ix) ==
    IF d.kind = "points" THEN IndicesResult(ix)
    ELSE IF d.kind = "DataFrame" THEN DataFrame(d.columns, Take(d.rows, ix))
    ELSE ArraysData(Take(d.latitudes, ix), Take(d.longitudes, ix))

Return(v) ==
    /\ ret' = v
    /\ pc' = "done"
    /\ UNCHANGED <<points_xy, stack, keep, indices>>

Raise ==
    /\ ret' = ErrorResult
    /\ pc' = "raised"
    /\ UNCHANGED <<points_xy, stack, keep, indices>>

\* rdp_indices down to the first test of the while loop
EnterReduction(pts) ==
    /\ points_xy' = pts
    /\ IF Len(pts) = 0
       THEN /\ indices' = <<>>
            /\ ret' = Materialize(data, <<>>)
            /\ pc' = "done"
            /\ UNCHANGED <<stack, keep>>
       ELSE IF Len(pts) <= 2
       THEN /\ indices' = Arange(Len(pts))
            /\ ret' = Materialize(data, Arange(Len(pts)))
            /\ pc' = "done"
            /\ UNCHANGED <<stack, keep>>
       ELSE /\ stack' = << <<0, Len(pts) - 1>> >>
            /\ keep' = KeepInit(Len(pts))
            /\ pc' = "loop"
            /\ UNCHANGED <<indices, ret>>

CallRdpIndices ==
    /\ pc = "start"
    /\ data.kind = "points"
    /\ EnterReduction(data.points_xy)
    /\ UNCHANGED <<data, epsilon, self, calls, iterations>>

HasLatLon_LatitudeOnly(cols) == "latitude" \in cols

HasLatLon(cols) == {"latitude", "longitude"} \subseteq cols

Column(rws, c) == [k \in 1 .. Len(rws) |-> rws[k][c]]

CallSimplifyDataframe ==
    /\ pc = "start"
    /\ data.kind = "DataFrame"
    /\ IF ~HasLatLon(data.columns) THEN Raise
       ELSE IF Len(data.rows) <= 2 THEN Return(data)
       \* df['latitude'], df['longitude']: KeyError on a column the frame lacks
       ELSE IF ~({"latitude", "longitude"} \subseteq data.columns) THEN Raise
       ELSE EnterReduction(latlon_to_xy(Column(data.rows, "latitude"),
                                        Column(data.rows, "longitude")).xy)
    /\ UNCHANGED <<data, epsilon, self, calls, iterations>>

CallSimplifyArrays ==
    /\ pc = "start"
    /\ data.kind = "arrays"
    /\ IF Len(data.latitudes) <= 2 THEN Return(data)
       ELSE LET pr == latlon_to_xy(data.latitudes, data.longitudes)
            IN  IF pr.ok THEN EnterReduction(pr.xy) ELSE Raise
    /\ UNCHANGED <<data, epsilon, self, calls, iterations>>

LoopIteration ==
    /\ pc = "loop"
    /\ stack # <<>>
    /\ LET s == LoopBody(points_xy, epsilon, stack, keep)
       IN  /\ stack' = s.stack
           /\ keep' = s.keep
    /\ iterations' = iterations + 1
    /\ UNCHANGED <<data, epsilon, points_xy, indices, ret, pc, self, calls>>

LoopExit ==
    /\ pc = "loop"
    /\ stack = <<>>
    /\ indices' = Nonzero(keep, Len(points_xy))
    /\ ret' = Materialize(data, Nonzero(keep, Len(points_xy)))
    /\ pc' = "done"
    /\ UNCHANGED <<data, epsilon, points_xy, stack, keep, self, calls, iterations>>

Next ==
    \/ CallRdpIndices
    \/ CallSimplifyDataframe
    \/ CallSimplifyArrays
    \/ LoopIteration
    \/ LoopExit

Spec == Init /\ [][Next]_vars

\* ---- one call of rdp_indices, run to completion ----
\* the call runs on its caller's thread and is never suspended: a step that
\* stays enabled is eventually taken
InitRdp == Init /\ data.kind = "points"

NextRdp ==
    \/ CallRdpIndices
    \/ LoopIteration
    \/ LoopExit

SpecRdpFair == InitRdp /\ [][NextRdp]_vars /\ WF_vars(NextRdp)

\* ---- rdp_indices on three points of a wider grid ----
\* one range, one interior point, and room for the point to lie beyond either
\* end of the segment
WideGrid == (0 .. (MaxX + 1)) \X (0 .. (MaxX + 1))

InitWide ==
    /\ \E p \in [1 .. 3 -> WideGrid] : data = PointsData(p)
    /\ epsilon \in Epsilons
    /\ points_xy = <<>>
    /\ stack = <<>>
    /\ keep = <<>>
    /\ indices = <<>>
    /\ ret = NoData
    /\ pc = "start"
    /\ self = Simplifiers
    /\ iterations = 0
    /\ calls = <<>>

SpecWide == InitWide /\ [][NextRdp]_vars

\* ---- two calls of simplify side by side ----
Threads == 1 .. 2

Reverse(s) == [k \in 1 .. Len(s) |-> s[Len(s) + 1 - k]]

\* the frame of a call simplify(data, epsilon_meters) on instance inst
Frame(inst, d, arg) ==
    [self |-> inst, data |-> d, epsilon_meters |-> arg, epsilon |-> None,
     points_xy |-> <<>>, stack |-> <<>>, keep |-> <<>>, ret |-> NoData, pc |-> "start"]

\* the frame c after the next step of its call, obj being the fields of the
\* instance the call is made on: simplify down to the first test of the while
\* loop, then one iteration of the loop at a time, then the return
SimplifyStep(c, obj) ==
    IF c.pc = "start"
    THEN LET eps == IF c.epsilon_meters # None THEN c.epsilon_meters ELSE obj.epsilon_meters
             d == c.data
             n == IF d.kind = "DataFrame" THEN Len(d.rows) ELSE Len(d.latitudes)
             started == [c EXCEPT !.epsilon = eps]
         IN  IF d.kind = "DataFrame" /\ ~HasLatLon(d.columns)
             THEN [started EXCEPT !.ret = ErrorResult, !.pc = "raised"]
             ELSE IF n <= 2 THEN [started EXCEPT !.ret = d, !.pc = "done"]
             ELSE LET pr == IF d.kind = "DataFrame"
                            THEN latlon_to_xy(Column(d.rows, "latitude"),
                                              Column(d.rows, "longitude"))
                            ELSE latlon_to_xy(d.latitudes, d.longitudes)
                  IN  IF ~pr.ok THEN [started EXCEPT !.ret = ErrorResult, !.pc = "raised"]
                      ELSE [started EXCEPT !.points_xy = pr.xy,
                                           !.stack = << <<0, n - 1>> >>,
                                           !.keep = KeepInit(n),
                                           !.pc = "loop"]
    ELSE IF c.stack # <<>>
    THEN LET s == LoopBody(c.points_xy, c.epsilon, c.stack, c.keep)
         IN  [c EXCEPT !.stack = s.stack, !.keep = s.keep]
    ELSE [c EXCEPT !.ret = Materialize(c.data, Nonzero(c.keep, Len(c.points_xy))),
                   !.pc = "done"]

\* thread 1 simplifies two arrays on instance 1, thread 2 a table holding
\* another track (the first one backwards) on either instance
InitConc ==
    /\ data = NoData
    /\ epsilon = 0
    /\ points_xy = <<>>
    /\ stack = <<>>
    /\ keep = <<>>
    /\ indices = <<>>
    /\ ret = NoData
    /\ pc = "idle"
    /\ self = Simplifiers
    /\ iterations = 0
    /\ \E la \in [1 .. (MaxN - 1) -> Lats] : \E lo \in [1 .. (MaxN - 1) -> Lons] :
       \E a1 \in {None, MaxEps * CosScale} : \E a2 \in {None, 0} : \E inst \in 1 .. 2 :
           calls = << Frame(1, ArraysData(la, lo), a1),
                      Frame(inst, TrackFrame(Columns, Reverse(la), Reverse(lo)), a2) >>

ThreadStep_StoresEpsilon(t) ==
    /\ calls[t].pc \in {"start", "loop"}
    /\ calls' = [calls EXCEPT ![t] = SimplifyStep(calls[t], self[calls[t].self])]
    /\ self' = [self EXCEPT ![calls[t].self].epsilon_meters = calls'[t].epsilon]
    /\ UNCHANGED <<data, epsilon, points_xy, stack, keep, indices, ret, pc, iterations>>

\* one step of the call running on thread t; the call reads self and writes
\* only to its own frame
ThreadStep(t) ==
    /\ calls[t].pc \in {"start", "loop"}
    /\ calls' = [calls EXCEPT ![t] = SimplifyStep(calls[t], self[calls[t].self])]
    /\ UNCHANGED <<data, epsilon, points_xy, stack, keep, indices, ret, pc, self, iterations>>

NextConc == \E t \in Threads : ThreadStep(t)

SpecConc == InitConc /\ [][NextConc]_vars

\* ---- calls on a track with one non-finite coordinate ----
InsertAt(s, k, v) == SubSeq(s, 1, k) \o <<v>> \o SubSeq(s, k + 1, Len(s))

InputsNaN(d) ==
    \E n \in 0 .. (MaxN - 1) : \E k \in 0 .. n :
        \/ \E p \in [1 .. n -> Grid] : d = PointsData(InsertAt(p, k, <<NaN, 0>>))
        \/ \E la \in [1 .. n -> Lats] : \E lo \in [1 .. n -> Lons] :
              \E bad \in {<<NaN, 0>>, <<LatBase, NaN>>} :
                  LET lats == InsertAt(la, k, bad[1])
                      lons == InsertAt(lo, k, bad[2])
                  IN  d = ArraysData(lats, lons) \/ d = TrackFrame(Columns, lats, lons)

InitNaN ==
    /\ InputsNaN(data)
    /\ epsilon \in Epsilons
    /\ points_xy = <<>>
    /\ stack = <<>>
    /\ keep = <<>>
    /\ indices = <<>>
    /\ ret = NoData
    /\ pc = "start"
    /\ self = Simplifiers
    /\ iterations = 0
    /\ calls = <<>>

SpecNaN == InitNaN /\ [][Next]_vars

\* ---- properties ----
Elems(s) == {s[k] : k \in 1 .. Len(s)}

StrictlyIncreasing(s) == \A k \in 1 .. (Len(s) - 1) : s[k] < s[k + 1]

RdpDone == pc = "done" /\ data.kind = "points"

InputN == Len(data.points_xy)

\* squared distance from p to the segment [a, b] as <<numerator, denominator>>:
\* to the foot of the perpendicular when it falls inside the segment, else to
\* the nearer endpoint
SegmentDist2(p, a, b) ==
    LET ab == <<b[1] - a[1], b[2] - a[2]>>
        ap == <<p[1] - a[1], p[2] - a[2]>>
        bp == <<p[1] - b[1], p[2] - b[2]>>
        len2 == ab[1] * ab[1] + ab[2] * ab[2]
        along == ap[1] * ab[1] + ap[2] * ab[2]
        cross == ab[1] * ap[2] - ab[2] * ap[1]
    IN  IF len2 = 0 \/ along <= 0 THEN <<ap[1] * ap[1] + ap[2] * ap[2], 1>>
        ELSE IF along >= len2 THEN <<bp[1] * bp[1] + bp[2] * bp[2], 1>>
        ELSE <<cross * cross, len2>>

WithinEpsilon(d2, eps) == d2[1] <= eps * eps * d2[2]

Below(ix, k) == CHOOSE a \in Elems(ix) : a < k /\ \A c \in Elems(ix) : c < k => c <= a

Above(ix, k) == CHOOSE b \in Elems(ix) : b > k /\ \A c \in Elems(ix) : c > k => b <= c

Discarded(ix, n) == (0 .. (n - 1)) \ Elems(ix)

\* C1: for N >= 2 points the returned index set contains 0 and N-1, and inside
\* the reduction loop keep[0] and keep[N-1] are true in every state
C1_EndpointsRetained ==
    /\ pc = "loop" => keep[0] /\ keep[Len(points_xy) - 1]
    /\ (RdpDone /\ InputN >= 2) => {0, InputN - 1} \subseteq Elems(ret.indices)

C1_Witness ==
    /\ RdpDone /\ InputN = 4 /\ epsilon >= 1
    /\ ret.indices = <<0, 3>>
    /\ \E k \in 1 .. 2 : ~WithinEpsilon(SegmentDist2(data.points_xy[k + 1], data.points_xy[1],
                                                     data.points_xy[4]), 0)

\* C2: for every N >= 0 and every epsilon the returned indices are strictly
\* increasing and each lies in 0 .. N-1
C2_IndicesIncreasingInRange ==
    RdpDone => /\ StrictlyIncreasing(ret.indices)
               /\ Elems(ret.indices) \subseteq 0 .. (InputN - 1)

C2_Witness == RdpDone /\ InputN = 4 /\ ret.indices = <<0, 2, 3>>

\* C3: with epsilon >= 0, every discarded index k lies within epsilon of the
\* segment between the nearest retained index below k and the nearest above k
C3_ErrorBound ==
    (RdpDone /\ epsilon >= 0) =>
        \A k \in Discarded(ret.indices, InputN) :
            WithinEpsilon(SegmentDist2(At(data.points_xy, k),
                                       At(data.points_xy, Below(ret.indices, k)),
                                       At(data.points_xy, Above(ret.indices, k))), epsilon)

C3_Witness ==
    /\ RdpDone /\ epsilon >= 1 /\ Len(ret.indices) = 3
    /\ \E k \in Discarded(ret.indices, InputN) :
          ~WithinEpsilon(SegmentDist2(At(data.points_xy, k),
                                      At(data.points_xy, Below(ret.indices, k)),
                                      At(data.points_xy, Above(ret.indices, k))), 0)

\* C4: for 0 <= epsilon1 < epsilon2 the number of indices retained with
\* epsilon2 is at most the number retained with epsilon1 on the same points
C4_MonotonicReduction ==
    (RdpDone /\ epsilon >= 0) =>
        \A e2 \in Epsilons :
            e2 > epsilon => Len(rdp_indices(data.points_xy, e2)) <= Len(ret.indices)

C4_Witness ==
    /\ RdpDone /\ epsilon = 0 /\ Len(ret.indices) = 3
    /\ Len(rdp_indices(data.points_xy, MaxEps)) = 2

\* C5: reducing the points selected by a first run once more with the same
\* epsilon >= 0 retains every one of them
C5_Idempotent ==
    (RdpDone /\ epsilon >= 0) =>
        rdp_indices(Take(data.points_xy, ret.indices), epsilon)
            = [k \in 1 .. Len(ret.indices) |-> k - 1]

C5_Witness ==
    /\ RdpDone /\ epsilon >= 1 /\ InputN = 4 /\ Len(ret.indices) = 3
TrackLen ==
    IF data.kind = "points" THEN Len(data.points_xy)
    ELSE IF data.kind = "DataFrame" THEN Len(data.rows)
    ELSE Len(data.latitudes)

MissingColumn ==
    data.kind = "DataFrame" /\ ("latitude" \notin data.columns \/ "longitude" \notin data.columns)

LengthMismatch == data.kind = "arrays" /\ Len(data.latitudes) # Len(data.longitudes)

NothingComputed == points_xy = <<>> /\ stack = <<>> /\ keep = <<>> /\ indices = <<>>

\* the indices the reduction retains on the projection of the input track
RetainedOfTrack ==
    LET lat == IF data.kind = "DataFrame"
               THEN [k \in 1 .. Len(data.rows) |-> data.rows[k]["latitude"]]
               ELSE data.latitudes
        lon == IF data.kind = "DataFrame"
               THEN [k \in 1 .. Len(data.rows) |-> data.rows[k]["longitude"]]
               ELSE data.longitudes
    IN  rdp_indices(latlon_to_xy(lat, lon).xy, epsilon)

\* C6: for every epsilon, N = 0 gives an empty result without error, N = 1
\* gives {0} and N = 2 gives {0, 1}, for rdp_indices and for simplify on a
\* table and on two arrays, and the work-list loop is never entered
C6_DegenerateInput ==
    /\ pc = "loop" => TrackLen >= 3
    /\ (pc # "start" /\ ~MissingColumn /\ ~LengthMismatch /\ TrackLen <= 2) =>
          /\ pc = "done"
          /\ stack = <<>> /\ keep = <<>>
          /\ data.kind = "points" =>
                ret.kind = "indices" /\ ret.indices = [k \in 1 .. TrackLen |-> k - 1]
          /\ data.kind = "DataFrame" =>
                ret.kind = "DataFrame" /\ ret.columns = data.columns /\ ret.rows = data.rows
          /\ data.kind = "arrays" =>
                /\ ret.kind = "arrays"
                /\ ret.latitudes = data.latitudes /\ ret.longitudes = data.longitudes

C6_Witness ==
    /\ pc = "done" /\ data.kind = "arrays" /\ epsilon = MaxEps
    /\ Len(data.latitudes) = 2 /\ Len(data.longitudes) = 2
    /\ data.latitudes[1] # data.latitudes[2]
    /\ Len(ret.latitudes) = 2

\* C7: simplify answers in the shape it was given, with the original values:
\* a table keeps its column set and its rows are the input rows at the retained
\* indices, in input order; two arrays come back as the input latitudes and
\* longitudes at the retained indices; first and last point kept when N >= 2
C7_SameShapeSubsequence ==
    (pc = "done" /\ data.kind \in {"DataFrame", "arrays"} /\ ~LengthMismatch) =>
        LET ix == RetainedOfTrack
        IN  /\ StrictlyIncreasing(ix)
            /\ TrackLen >= 2 => ix[1] = 0 /\ ix[Len(ix)] = TrackLen - 1
            /\ data.kind = "DataFrame" =>
                  /\ ret.kind = "DataFrame"
                  /\ ret.columns = data.columns
                  /\ Len(ret.rows) = Len(ix)
                  /\ \A k \in 1 .. Len(ix) : ret.rows[k] = data.rows[ix[k] + 1]
            /\ data.kind = "arrays" =>
                  /\ ret.kind = "arrays"
                  /\ Len(ret.latitudes) = Len(ix) /\ Len(ret.longitudes) = Len(ix)
                  /\ \A k \in 1 .. Len(ix) :
                        /\ ret.latitudes[k] = data.latitudes[ix[k] + 1]
                        /\ ret.longitudes[k] = data.longitudes[ix[k] + 1]

C7_Witness ==
    /\ pc = "done" /\ data.kind = "DataFrame" /\ data.columns = Columns
    /\ Len(data.rows) = 4 /\ Len(ret.rows) = 3
    /\ ret.rows[2] = data.rows[3]

\* C8: simplify and rdp_indices called with a negative epsilon reject the call
\* with an input-validation error before any computation and return nothing
C8_NegativeEpsilonRejected ==
    (epsilon < 0 /\ pc # "start") => (pc = "raised" /\ ret.kind = "error" /\ NothingComputed)

\* C9: simplify on a table lacking the latitude or the longitude column fails
\* before any projection or reduction step, whatever the table length, and
\* returns no partial result
C9_MissingColumnRejected ==
    (MissingColumn /\ pc # "start") => (pc = "raised" /\ ret = ErrorResult /\ NothingComputed)

C9_Witness ==
    /\ pc = "raised" /\ data.kind = "DataFrame"
    /\ data.columns = {"latitude", "elevation"} /\ Len(data.rows) = 2

\* C10: simplify on two arrays of different lengths fails with an error and
\* returns no result, also when the latitude array has length 0, 1 or 2
C10_LengthMismatchRejected ==
    (LengthMismatch /\ pc # "start") => (pc = "raised" /\ ret.kind = "error")
\* the latitudes and longitudes of a track given to simplify
TrackLatitudes(d) ==
    IF d.kind = "DataFrame" THEN [k \in 1 .. Len(d.rows) |-> d.rows[k]["latitude"]]
    ELSE d.latitudes

TrackLongitudes(d) ==
    IF d.kind = "DataFrame" THEN [k \in 1 .. Len(d.rows) |-> d.rows[k]["longitude"]]
    ELSE d.longitudes

NonFinite(d) ==
    \/ \E k \in 1 .. Len(TrackLatitudes(d)) : TrackLatitudes(d)[k] = 0 - 999
    \/ \E k \in 1 .. Len(TrackLongitudes(d)) : TrackLongitudes(d)[k] = 0 - 999

\* C11: when a latitude or longitude of the input is NaN, simplify rejects the
\* offending point or the whole call: the reduction never runs on a non-finite
\* planar point and no returned track carries the non-finite point
C11_NonFiniteRejected ==
    (data.kind \in {"DataFrame", "arrays"} /\ NonFinite(data)) =>
        /\ pc = "loop" => \A k \in 1 .. Len(points_xy) :
                              points_xy[k][1] # 0 - 999 /\ points_xy[k][2] # 0 - 999
        /\ pc = "done" => ~NonFinite(ret)
Span(r) == r[2] - r[1]

RECURSIVE Measure(_)
Measure(stk) ==
    IF stk = <<>> THEN 0 ELSE 2 * Span(stk[Len(stk)]) - 1 + Measure(SubSeq(stk, 1, Len(stk) - 1))

\* C12: for every finite point sequence the work-list loop reaches an empty
\* work-list and returns: every iteration leaves the other pending ranges
\* alone, pushes only ranges of strictly smaller span than the range it took
\* (never that range again) and strictly decreases the natural number
\* Measure(stack), so only finitely many iterations follow one another, and the
\* step taken on the empty work-list returns
C12_Termination ==
    [][/\ (pc = "loop" /\ stack # <<>>) =>
            /\ pc' = "loop"
            /\ Len(stack') >= Len(stack) - 1
            /\ \A k \in 1 .. (Len(stack) - 1) : stack'[k] = stack[k]
            /\ \A k \in Len(stack) .. Len(stack') :
                  /\ stack'[k] # stack[Len(stack)]
                  /\ Span(stack'[k]) >= 1
                  /\ Span(stack'[k]) < Span(stack[Len(stack)])
            /\ Measure(stack') < Measure(stack)
       /\ (pc = "loop" /\ stack = <<>>) => pc' = "done"]_vars

\* the same under SpecRdpFair, as a leads-to: a call that has started returns
C12_EventuallyReturns == (pc = "start") ~> (pc = "done" /\ stack = <<>>)

C12_Witness ==
    /\ RdpDone /\ epsilon >= 0 /\ InputN = MaxN
    /\ ret.indices = [k \in 1 .. InputN |-> k - 1]
    /\ stack = <<>>

\* d1 > d2 for two squared distances given as fractions
Farther(d1, d2) == d1[1] * d2[2] > d2[1] * d1[2]

\* the first interior index of the range (i, j) at the largest distance from
\* the segment [P_i, P_j]
Farthest(pts, i, j) ==
    LET D(k) == SegmentDist2(At(pts, k), At(pts, i), At(pts, j))
    IN  CHOOSE k \in (i + 1) .. (j - 1) :
            \A m \in (i + 1) .. (j - 1) : /\ m < k => Farther(D(k), D(m))
                                          /\ m > k => ~Farther(D(m), D(k))

\* the range (i, j) is split: its farthest interior point is further than eps
Splits(pts, i, j, eps) ==
    /\ j - i > 1
    /\ \/ eps < 0
       \/ ~WithinEpsilon(SegmentDist2(At(pts, Farthest(pts, i, j)), At(pts, i), At(pts, j)), eps)

\* textbook recursive Douglas-Peucker: the interior indices kept in (i, j)
RECURSIVE DouglasPeucker(_, _, _, _)
DouglasPeucker(pts, i, j, eps) ==
    IF ~Splits(pts, i, j, eps) THEN {}
    ELSE LET k == Farthest(pts, i, j)
         IN  {k} \cup DouglasPeucker(pts, i, k, eps) \cup DouglasPeucker(pts, k, j, eps)

\* the index sets a work-list reduction can end with when the next range is
\* taken from anywhere in the set of pending ranges
RECURSIVE AnyOrder(_, _, _, _)
AnyOrder(pts, eps, pending, kept) ==
    IF pending = {} THEN {kept}
    ELSE UNION {LET i == r[1]
                    j == r[2]
                    k == Farthest(pts, i, j)
                IN  IF Splits(pts, i, j, eps)
                    THEN AnyOrder(pts, eps, (pending \ {r}) \cup {<<i, k>>, <<k, j>>},
                                  kept \cup {k})
                    ELSE AnyOrder(pts, eps, pending \ {r}, kept) : r \in pending}

\* C13: for N >= 3 the returned indices are exactly the endpoints and the
\* indices textbook recursive Douglas-Peucker keeps (split at the first
\* farthest interior point when its distance exceeds epsilon), and taking the
\* pending ranges in any order ends with that same set
C13_EquivalentToRecursive ==
    (RdpDone /\ InputN >= 3) =>
        /\ StrictlyIncreasing(ret.indices)
        /\ Elems(ret.indices) =
              {0, InputN - 1} \cup DouglasPeucker(data.points_xy, 0, InputN - 1, epsilon)
        /\ AnyOrder(data.points_xy, epsilon, {<<0, InputN - 1>>}, {0, InputN - 1})
              = {Elems(ret.indices)}

\* every point is kept, and the left half of the first split is split again
C13_Witness ==
    /\ RdpDone /\ InputN = MaxN /\ epsilon = 0
    /\ Len(ret.indices) = MaxN
    /\ \E k \in 1 .. (InputN - 2) :
          /\ k = Farthest(data.points_xy, 0, InputN - 1)
          /\ k > 1
          /\ Splits(data.points_xy, 0, k, epsilon)

\* the frame a call ends with when it runs alone on a freshly constructed
\* instance
RECURSIVE RunAlone(_)
RunAlone(c) ==
    IF c.pc \in {"done", "raised"} THEN c
    ELSE RunAlone(SimplifyStep(c, Simplifiers[c.self]))

\* C14: under every interleaving of the steps of two calls of simplify, on one
\* instance or on two, a call that has finished holds the result it returns
\* when run alone, and no step writes to an instance, to the input of a call
\* or to the frame of the other call
C14_NoInterference ==
    /\ [](\A t \in DOMAIN calls :
            calls[t].pc \in {"done", "raised"} =>
                /\ calls[t].ret = RunAlone(Frame(calls[t].self, calls[t].data,
                                                 calls[t].epsilon_meters)).ret
                /\ calls[t].pc = RunAlone(Frame(calls[t].self, calls[t].data,
                                                calls[t].epsilon_meters)).pc)
    /\ [][/\ self' = self
          /\ DOMAIN calls' = DOMAIN calls
          /\ \A t \in DOMAIN calls :
                /\ calls'[t].data = calls[t].data
                /\ calls'[t].self = calls[t].self
                /\ calls'[t].epsilon_meters = calls[t].epsilon_meters
          /\ \A t, u \in DOMAIN calls :
                (calls'[t] # calls[t] /\ u # t) => calls'[u] = calls[u]]_vars

\* both calls are on instance 1 and have returned, the second after the first
\* was in its loop; the first was given a tolerance, the second used the
\* instance's, and their results differ in length
C14_Witness ==
    /\ pc = "idle"
    /\ calls[1].pc = "done" /\ calls[2].pc = "done"
    /\ calls[1].self = 1 /\ calls[2].self = 1
    /\ calls[1].epsilon_meters # None /\ calls[2].epsilon_meters = None
    /\ calls[1].epsilon # calls[2].epsilon
    /\ Len(calls[1].ret.latitudes) < Len(calls[2].ret.rows)

\* the range the next iteration takes from the work-list
TopRange == stack[Len(stack)]

\* the squared distance of point k from the segment between points i and j
RangeDist2(i, j, k) == SegmentDist2(At(points_xy, k), At(points_xy, i), At(points_xy, j))

EqualsEpsilon(d2, eps) == d2[1] = eps * eps * d2[2]

\* C15: for N >= 2 and epsilon >= 0, when every interior point is within
\* epsilon (equality included) of the segment from point 0 to point N-1 the
\* result is exactly 0, N-1; an iteration on a range whose largest distance
\* equals epsilon keeps no point and pushes no range
C15_StraightLineCollapse ==
    /\ []((RdpDone /\ InputN >= 2 /\ epsilon >= 0
           /\ \A k \in 1 .. (InputN - 2) :
                 WithinEpsilon(SegmentDist2(At(data.points_xy, k), At(data.points_xy, 0),
                                            At(data.points_xy, InputN - 1)), epsilon))
          => ret.indices = <<0, InputN - 1>>)
    /\ [][(/\ pc = "loop" /\ stack # <<>> /\ epsilon >= 0
           /\ TopRange[2] - TopRange[1] > 1
           /\ \A k \in (TopRange[1] + 1) .. (TopRange[2] - 1) :
                 WithinEpsilon(RangeDist2(TopRange[1], TopRange[2], k), epsilon)
           /\ \E k \in (TopRange[1] + 1) .. (TopRange[2] - 1) :
                 EqualsEpsilon(RangeDist2(TopRange[1], TopRange[2], k), epsilon))
          => /\ stack' = SubSeq(stack, 1, Len(stack) - 1)
             /\ keep' = keep]_vars

\* a track of MaxN points collapsed to its endpoints, one interior point off
\* the chord by exactly epsilon > 0
C15_Witness ==
    /\ RdpDone /\ InputN = MaxN /\ epsilon > 0
    /\ ret.indices = <<0, InputN - 1>>
    /\ \E k \in 1 .. (InputN - 2) :
          EqualsEpsilon(SegmentDist2(At(data.points_xy, k), At(data.points_xy, 0),
                                     At(data.points_xy, InputN - 1)), epsilon)

\* pts runs along one straight leg in equal steps up to index c and from
\* there along a perpendicular leg in equal steps
LShape(pts, c) ==
    LET n == Len(pts)
        u == <<At(pts, 1)[1] - At(pts, 0)[1], At(pts, 1)[2] - At(pts, 0)[2]>>
        v == <<At(pts, n - 1)[1] - At(pts, n - 2)[1], At(pts, n - 1)[2] - At(pts, n - 2)[2]>>
        Step(k) == <<At(pts, k + 1)[1] - At(pts, k)[1], At(pts, k + 1)[2] - At(pts, k)[2]>>
    IN  /\ c \in 1 .. (n - 2)
        /\ u # <<0, 0>> /\ v # <<0, 0>>
        /\ u[1] * v[1] + u[2] * v[2] = 0
        /\ \A k \in 0 .. (c - 1) : Step(k) = u
        /\ \A k \in c .. (n - 2) : Step(k) = v

\* C16: on an L-shaped track with epsilon smaller than the distance of the
\* corner from the chord between the endpoints, the corner is returned
\* together with 0 and N-1; and an iteration on a range whose (first)
\* farthest interior point is further than epsilon from the range's segment
\* keeps that point
C16_SharpCornerPreserved ==
    /\ [](RdpDone =>
            \A c \in 1 .. (InputN - 2) :
                (/\ LShape(data.points_xy, c)
                 /\ \/ epsilon < 0
                    \/ ~WithinEpsilon(SegmentDist2(At(data.points_xy, c), At(data.points_xy, 0),
                                                   At(data.points_xy, InputN - 1)), epsilon))
                => {0, c, InputN - 1} \subseteq Elems(ret.indices))
    /\ [][(/\ pc = "loop" /\ stack # <<>>
           /\ Splits(points_xy, TopRange[1], TopRange[2], epsilon))
          => keep'[Farthest(points_xy, TopRange[1], TopRange[2])]]_vars

\* an L-shaped track reduced with epsilon = 0 < the corner's distance: the
\* corner stays
C16_Witness ==
    /\ RdpDone /\ epsilon = 0
    /\ \E c \in 1 .. (InputN - 2) :
          /\ LShape(data.points_xy, c)
          /\ ~WithinEpsilon(SegmentDist2(At(data.points_xy, c), At(data.points_xy, 0),
                                         At(data.points_xy, InputN - 1)), epsilon)
          /\ c \in Elems(ret.indices)
          /\ Len(ret.indices) = 3

\* the sum of the spans of the pending ranges
RECURSIVE TotalSpan(_)
TotalSpan(stk) ==
    IF stk = <<>> THEN 0 ELSE Span(Head(stk)) + TotalSpan(Tail(stk))

\* C17: in every iteration of the loop the number of pending ranges after the
\* iteration is smaller than before it
C17_WorkListShrinks ==
    [][(pc = "loop" /\ stack # <<>>) => Len(stack') < Len(stack)]_vars

\* C17, amended: an iteration that does not split its range leaves one pending
\* range fewer; an iteration that splits leaves one more, the two new ranges
\* covering the span of the one taken, so that the total span of the pending
\* ranges never grows
C17_WorkListStep ==
    [][(pc = "loop" /\ stack # <<>>) =>
          IF Splits(points_xy, TopRange[1], TopRange[2], epsilon)
          THEN /\ Len(stack') = Len(stack) + 1
               /\ TotalSpan(stack') = TotalSpan(stack)
          ELSE /\ Len(stack') = Len(stack) - 1
               /\ TotalSpan(stack') < TotalSpan(stack)]_vars

\* two splits in a row: three ranges pending where one was
C17_Witness == pc = "loop" /\ Len(points_xy) = MaxN /\ Len(stack) = 3 /\ epsilon >= 0

\* C18: the distance the loop computes for every interior point k of the
\* range it takes is the distance to the segment: to the foot of the
\* perpendicular when that lies between the two ends, to the nearer end
\* otherwise, and to the one location when the two ends coincide, where the
\* denominator is 1 and not the zero length
C18_PointToSegmentDistance ==
    (pc = "loop" /\ stack # <<>> /\ TopRange[2] - TopRange[1] > 1) =>
        LET i == TopRange[1]
            j == TopRange[2]
            den == SegDen(At(points_xy, i), At(points_xy, j))
        IN  /\ den > 0
            /\ \A k \in (i + 1) .. (j - 1) :
                  LET num == Distances(points_xy, i, j)[k - i]
                      d2 == RangeDist2(i, j, k)
                      pk == Sub(At(points_xy, k), At(points_xy, i))
                  IN  /\ num * d2[2] = d2[1] * den
                      /\ At(points_xy, i) = At(points_xy, j) =>
                            den = 1 /\ num = pk[1] * pk[1] + pk[2] * pk[2]

\* the interior point projects beyond the far end of a segment of non-zero
\* length and is off the segment's line
C18_Witness ==
    /\ pc = "loop" /\ stack = << <<0, 2>> >>
    /\ LET ab == Sub(At(points_xy, 2), At(points_xy, 0))
           ap == Sub(At(points_xy, 1), At(points_xy, 0))
       IN  /\ Dot(ab, ab) > 0
           /\ Dot(ap, ab) > Dot(ab, ab)
           /\ ab[1] * ap[2] - ab[2] * ap[1] # 0

\* the interior indices of the range (i, j) at the largest distance from its
\* segment
Maxima(i, j) ==
    {k \in (i + 1) .. (j - 1) :
        \A m \in (i + 1) .. (j - 1) : ~Farther(RangeDist2(i, j, m), RangeDist2(i, j, k))}

Lowest(S) == CHOOSE k \in S : \A m \in S : k <= m

\* C19: when several interior points of the range taken are at the same
\* largest distance and that distance exceeds epsilon, the iteration keeps
\* the one of lowest index, keeps no other point, and splits the range there:
\* the step is a function of the state
C19_TieBreakLowestIndex ==
    [][(/\ pc = "loop" /\ stack # <<>>
        /\ TopRange[2] - TopRange[1] > 1
        /\ Cardinality(Maxima(TopRange[1], TopRange[2])) > 1
        /\ \/ epsilon < 0
           \/ \E k \in Maxima(TopRange[1], TopRange[2]) :
                 ~WithinEpsilon(RangeDist2(TopRange[1], TopRange[2], k), epsilon))
       => LET k == Lowest(Maxima(TopRange[1], TopRange[2]))
          IN  /\ keep' = [keep EXCEPT ![k] = TRUE]
              /\ stack' = SubSeq(stack, 1, Len(stack) - 1)
                             \o << <<TopRange[1], k>>, <<k, TopRange[2]>> >>]_vars

\* points 1 and 2 were tied farthest from the segment 0-3, at a distance
\* above epsilon >= 0; the range was split at point 1 and point 2 is not kept
C19_Witness ==
    /\ pc = "loop" /\ epsilon >= 0
    /\ stack = << <<0, 1>>, <<1, 3>> >>
    /\ Maxima(0, 3) = {1, 2}
    /\ keep[1] /\ ~keep[2]

\* C20: on N >= 3 points the stack never holds more than N-1 ranges and the
\* loop body never runs more than 2N-3 times
C20_BoundedWorkList ==
    (pc \in {"loop", "done"} /\ Len(points_xy) >= 3) =>
        /\ Len(stack) <= Len(points_xy) - 1
        /\ iterations <= 2 * Len(points_xy) - 3

\* every interior point was a split point: 2N-3 passes
C20_Witness ==
    /\ RdpDone /\ InputN = MaxN
    /\ iterations = 2 * MaxN - 3
    /\ Len(ret.indices) = MaxN

\* the indices strictly between the ends of the range r
Interior(r) == (r[1] + 1) .. (r[2] - 1)

\* C21: in every state of the reduction loop each pending range (i, j) has
\* 0 <= i < j <= N-1, i and j marked retained and no index strictly between
\* them marked retained; the pending ranges are pairwise interior-disjoint;
\* and a retained flag, once true, stays true
C21_WorkListInvariant ==
    /\ [](pc = "loop" =>
            /\ \A q \in 1 .. Len(stack) :
                  /\ 0 <= stack[q][1]
                  /\ stack[q][1] < stack[q][2]
                  /\ stack[q][2] <= Len(points_xy) - 1
                  /\ keep[stack[q][1]] /\ keep[stack[q][2]]
                  /\ \A k \in Interior(stack[q]) : ~keep[k]
            /\ \A q, r \in 1 .. Len(stack) :
                  q # r => Interior(stack[q]) \cap Interior(stack[r]) = {})
    /\ [][/\ DOMAIN keep \subseteq DOMAIN keep'
          /\ \A k \in DOMAIN keep : keep[k] => keep'[k]]_vars

\* the first split was at index 2: the range (0, 2) is pending with index 1
\* inside it not retained, next to the range (2, 3)
C21_Witness ==
    /\ pc = "loop" /\ Len(points_xy) = MaxN
    /\ stack = << <<0, 2>>, <<2, MaxN - 1>> >>
    /\ keep[2] /\ ~keep[1]
====
